---------------------------- MODULE Spec2Model ----------------------------
(***************************************************************************)
(* State-machine model of the AMBF pleat-saw firmware.                     *)
(*                                                                         *)
(*   ESP32-B  firmware/esp32b_backstop/src/main.cpp : closed-loop          *)
(*            positioning axis M3 (timer ISR step engine, quadrature       *)
(*            encoder, correction state machine, serial commands).         *)
(*   ESP32-A  firmware/esp32a_axis12/src/main.cpp : blade M1 and feed M2,  *)
(*            frequency-controlled through the MCPWM peripheral.           *)
(*                                                                         *)
(* Numbers.  The float positions of ESP32-B are carried as integers in the *)
(* unit u = MAX_POSITION_ERROR_IN / 2179 = 0.2 in / 2179 (9.1785e-5 in).   *)
(* In that unit one motor step (1 / STEPS_PER_IN) is 9.99997 u and one     *)
(* encoder count (IN_PER_COUNT) is 39.9999 u; they are taken as 10 u and   *)
(* 40 u, which is what the float32 arithmetic of the firmware yields:      *)
(* (int32_t)(counts * IN_PER_COUNT * STEPS_PER_IN) = 4 * counts for every  *)
(* count in -3000..3000.  POSITION_TOLERANCE_IN = 0.2 mm is 85.787 u, so   *)
(* |e| <= POSITION_TOLERANCE_IN is |e| <= 85 for an integer e.             *)
(* Velocities are in 1e-4 in/s.                                             *)
(***************************************************************************)
EXTENDS Integers, Sequences, FiniteSets, TLC

\* ------------------------------------------------------------------------
\* Bounds of the model (inputs the host and the environment are drawn from)
\* ------------------------------------------------------------------------
MaxCount == 3          \* encoder counts are sampled in 0 .. MaxCount
FarJump == 55          \* counts of a slip: a burst of edges within one iteration
MaxRunaway == 12       \* steps the open-loop counter is followed outside the encoder range
MaxIsrPerStep == 1     \* timer interrupts between two adjacent main statements
MaxEdges == 6          \* level changes of the encoder pins that are followed

Targets == {0, 141}             \* g<position> arguments, in u
TargetsFollow == {0, 127, 220}  \* the same for the coupled axis

\* ------------------------------------------------------------------------
\* Calibration and control constants of ESP32-B
\* ------------------------------------------------------------------------
STEPS_PER_IN == 10               \* u per motor step
IN_PER_COUNT == 40               \* u per encoder count
DEFAULT_VELOCITY_IPS == 492
POSITION_TOLERANCE_IN == 85
MAX_POSITION_ERROR_IN == 2179
CORRECTION_VELOCITY_SCALE == 10  \* corrections at 1/10 of the commanded speed
MIN_CORRECTION_VEL_IPS == 50
MIN_STEP_RATE == 10              \* steps per second

VARIABLES
    motor,        \* struct motor
    encoder,      \* struct encoder
    step_pin,     \* level of M3_STEP_PIN
    dir_pin,      \* level of M3_DIR_PIN
    timer_alarm,  \* value programmed with timerAlarmWrite
    pc,           \* position of the cooperative main context
    steps_read,   \* motor.current_steps as read by the statement in progress
    out,          \* lines sent by the last step of the main context (CMD echo left out)
    isr_left,     \* timer interrupts that can still precede the next main step
    shaft,        \* motor steps since the last encoder edge (coupled axis)
    last,         \* last of: go-to, home, stop command read; alarm raised
    settled,      \* AT_TARGET was sent and only status queries were read since
    quad,         \* encoder pins, encoder.last_ab and the latched pin interrupts
    arg           \* argument text of the v command being processed, else ""

varsB == <<motor, encoder, step_pin, dir_pin, timer_alarm, pc, steps_read, out,
           isr_left, shaft, last, settled, quad, arg>>

\* ESP32-A
VARIABLES
    m1,           \* struct m1; freq_hz in 1/60 Hz
    m2,           \* struct m2; vel_mm_s in 1/1000 mm/s, freq_hz in 1/1000 Hz
    pwm1,         \* MCPWM timer 0: frequency programmed (Hz) and output enabled
    pwm2,         \* MCPWM timer 1
    m2_dir_pin,   \* level of M2_DIR_PIN
    home_low,     \* M2_HOME_PIN reads LOW (home sensor asserted)
    cmdA,         \* command line taken by the last processSerialCommand
    outA,         \* response sent by the last step
    pcA           \* position in loop()

varsA == <<m1, m2, pwm1, pwm2, m2_dir_pin, home_low, cmdA, outA, pcA>>

vars == <<varsB, varsA>>

Abs(x) == IF x < 0 THEN -x ELSE x

\* C conversion (int32_t)(n / d): truncation toward zero
Trunc(n, d) == IF n >= 0 THEN n \div d ELSE -((-n) \div d)

\* (int32_t)(x * STEPS_PER_IN) for a position or an error x in u
ToSteps(x) == Trunc(x, STEPS_PER_IN)

\* (int32_t)(POSITION_TOLERANCE_IN * STEPS_PER_IN) of onTimer
TolSteps == ToSteps(POSITION_TOLERANCE_IN)

\* v<velocity> arguments
VelTexts == {"-0.0001", "0", "fast", "0.0492"}

\* arg.toFloat() in 1e-4 in/s: the number the text starts with, 0 for text
\* that starts with no number
toFloat(text) ==
    CASE text = "-0.0001" -> -1
      [] text = "0.0001" -> 1
      [] text = "0.0492" -> DEFAULT_VELOCITY_IPS
      [] text = "1000" -> 10000000
      [] OTHER -> 0

VelInputs == {toFloat(text) : text \in VelTexts}

\* v<velocity> argument texts from the slowest to the fastest: 0.0001 in/s,
\* the default and 1000 in/s
VelTextsWide == {"0.0001", "0.0492", "1000"}

\* encoder counts the environment produces, and the open-loop counts followed
EncoderRange == (0 .. MaxCount) \cup {FarJump + MaxCount}
StepRange == (-MaxRunaway) .. (ToSteps((FarJump + MaxCount) * IN_PER_COUNT) + MaxRunaway)

\* initInterruptEncoder always returns true
detected == TRUE

syncMotorStepsWithEncoder(m, e) ==
    IF ~detected THEN m
    ELSE [m EXCEPT !.current_steps = ToSteps(e.position_in)]

\* readEncoderCount and the position part of updateEncoder
updateEncoder(e) ==
    IF ~detected THEN e
    ELSE [e EXCEPT !.last_counts = e.counts,
                   !.position_in = e.counts * IN_PER_COUNT]

\* resetEncoderCount and resetEncoder, without the response line
resetEncoder(e) == [e EXCEPT !.counts = 0, !.last_counts = 0, !.position_in = 0]

\* step_interval_us of updateTimerFrequency for a velocity in 1e-4 in/s:
\* step_rate = vel * STEPS_PER_IN (1089.5 steps per inch), floored at 10
StepInterval(vel) ==
    LET rate_milli == vel * 108 + (vel * 95) \div 100
        floored == IF rate_milli < MIN_STEP_RATE * 1000
                   THEN MIN_STEP_RATE * 1000 ELSE rate_milli
    IN 1000000000 \div floored

updateTimerFrequency(m) == [m EXCEPT !.step_interval_us = StepInterval(m.velocity_ips)]

\* ------------------------------------------------------------------------
\* Quadrature decoder.  A pin state is (A << 1) | B.
\* ------------------------------------------------------------------------
\* the table with the signs of the row of state 11 exchanged
quad_table_row3 == <<0, -1, 1, 0,   1, 0, 0, -1,   -1, 0, 0, 1,   0, -1, 1, 0>>

quad_table == <<0, -1, 1, 0,   1, 0, 0, -1,   -1, 0, 0, 1,   0, 1, -1, 0>>

Channels == {"A", "B"}
PinBit(ch) == IF ch = "A" THEN 2 ELSE 1

\* the pin state ab with the level of channel ch changed
Toggle(ab, ch) ==
    IF (ab \div PinBit(ch)) % 2 = 1 THEN ab - PinBit(ch) ELSE ab + PinBit(ch)

\* setup() line 333 with the pins at level ab: last_ab is read from the pins,
\* no interrupt is latched.  seen and valid are history: the directions and
\* the number of the single-channel transitions the decoder was called with.
QuadAt(ab) ==
    [ab |-> ab, last_ab |-> ab, irq |-> {}, edges |-> 0, seen |-> {}, valid |-> 0]

\* ------------------------------------------------------------------------
\* setup()
\* ------------------------------------------------------------------------
InitB ==
    /\ motor = updateTimerFrequency(
                 [target_steps |-> 0, current_steps |-> 0,
                  velocity_ips |-> DEFAULT_VELOCITY_IPS,
                  base_velocity_ips |-> DEFAULT_VELOCITY_IPS,
                  in_motion |-> FALSE, direction |-> TRUE,
                  step_pin_state |-> FALSE, step_interval_us |-> 0,
                  pulse_counter |-> 0, motion_complete_flag |-> FALSE,
                  target_position_in |-> 0, closed_loop_enabled |-> detected])
    /\ encoder = [counts |-> 0, last_counts |-> 0, position_in |-> 0]
    /\ step_pin = FALSE
    /\ dir_pin = FALSE
    /\ timer_alarm = StepInterval(DEFAULT_VELOCITY_IPS) \div 2
    /\ pc = "loop"
    /\ steps_read = 0
    /\ out = <<>>
    /\ isr_left = MaxIsrPerStep
    /\ shaft = 0
    /\ last = "none"
    /\ settled = FALSE
    /\ arg = ""

\* ------------------------------------------------------------------------
\* Timer ISR.  It runs between any two steps of the main context; the body
\* is one critical section.
\* ------------------------------------------------------------------------
onTimer ==
    /\ motor.in_motion
    /\ LET error_steps == motor.target_steps - motor.current_steps IN
       IF Abs(error_steps) <= TolSteps
       THEN /\ motor' = [motor EXCEPT !.in_motion = FALSE,
                                      !.motion_complete_flag = TRUE]
            /\ step_pin' = FALSE
       ELSE IF ~motor.step_pin_state
       THEN /\ motor' = [motor EXCEPT !.step_pin_state = TRUE,
                                      !.pulse_counter = 0]
            /\ step_pin' = TRUE
       ELSE IF motor.pulse_counter + 1 >= 1
       THEN /\ motor' = [motor EXCEPT
                  !.pulse_counter = motor.pulse_counter + 1,
                  !.step_pin_state = FALSE,
                  !.current_steps = IF motor.direction
                                    THEN motor.current_steps + 1
                                    ELSE motor.current_steps - 1]
            /\ step_pin' = FALSE
       ELSE /\ motor' = [motor EXCEPT !.pulse_counter = motor.pulse_counter + 1]
            /\ step_pin' = step_pin
    /\ UNCHANGED <<dir_pin, timer_alarm, pc, steps_read, out, last, settled>>

\* The main context waits in delay() at the end of loop() and at the start of
\* closedLoopCorrection(): any number of timer periods pass there.  Between
\* two adjacent statements at most MaxIsrPerStep periods pass.
DelayPcs == {"loop", "corr"}

Tick ==
    /\ pc \in DelayPcs \/ isr_left > 0
    /\ motor.current_steps \in StepRange
    /\ onTimer
    /\ isr_left' = IF pc \in DelayPcs THEN isr_left ELSE isr_left - 1
    /\ UNCHANGED <<encoder, shaft, quad, arg, varsA>>

\* Encoder ISR: one valid quadrature edge in direction d.  The main context
\* reads encoder.counts only in updateEncoder at the top of loop(), so an edge
\* that arrives during an iteration is delivered before the next one starts.
handleEncoderChange(d) ==
    /\ pc = "loop"
    /\ encoder.counts + d \in EncoderRange
    /\ encoder' = [encoder EXCEPT !.counts = encoder.counts + d]
    /\ UNCHANGED <<motor, step_pin, dir_pin, timer_alarm, pc, steps_read, out,
                   isr_left, shaft, last, settled, quad, arg, varsA>>

EncoderEdge == \E d \in {-1, 1} : handleEncoderChange(d)

\* The axis slips (belt, stalled motor pushed by the load): FarJump valid
\* edges in one direction arrive within one iteration of loop()
EncoderSlip == \E d \in {-FarJump, FarJump} : handleEncoderChange(d)

\* The encoder turns through the pin states 00 -> 10 -> 11 -> 01 -> 00 in the
\* direction that counts up, and through the reverse sequence in the other.
\* Rotation is 1 / -1 for a transition of one channel in the up / down
\* direction, 0 for a repeated state and for a change of both channels.
GrayUp(ab) == IF ab = 0 THEN 2 ELSE IF ab = 2 THEN 3 ELSE IF ab = 3 THEN 1 ELSE 0

Rotation(prev, curr) ==
    IF curr = GrayUp(prev) THEN 1 ELSE IF prev = GrayUp(curr) THEN -1 ELSE 0

\* the level of encoder channel ch changes (a turn of the shaft or a bounce
\* of the contact); attachInterrupt(..., CHANGE) latches the interrupt of the pin
PinChange(ch) ==
    /\ quad.edges < MaxEdges
    /\ quad' = [quad EXCEPT !.ab = Toggle(@, ch),
                            !.irq = @ \cup {ch},
                            !.edges = @ + 1]
    /\ UNCHANGED <<motor, encoder, step_pin, dir_pin, timer_alarm, pc, steps_read,
                   out, isr_left, shaft, last, settled, arg, varsA>>

\* handleEncoderChange() as the handler of the latched interrupt of pin ch:
\* it reads both pins as they are by now
EncoderIsr(ch) ==
    /\ ch \in quad.irq
    /\ LET curr == quad.ab
           idx == quad.last_ab * 4 + curr
       IN /\ encoder' = [encoder EXCEPT !.counts = @ + quad_table[idx + 1]]
          /\ quad' = [quad EXCEPT
                        !.last_ab = curr,
                        !.irq = @ \ {ch},
                        !.seen = IF Rotation(quad.last_ab, curr) = 0 THEN @
                                 ELSE @ \cup {Rotation(quad.last_ab, curr)},
                        !.valid = IF Rotation(quad.last_ab, curr) = 0 THEN @
                                  ELSE @ + 1]
    /\ UNCHANGED <<motor, step_pin, dir_pin, timer_alarm, pc, steps_read, out,
                   isr_left, shaft, last, settled, arg, varsA>>

\* ------------------------------------------------------------------------
\* loop()
\* ------------------------------------------------------------------------
\* updateEncoder, updateResetButton (pressed: a debounced press is seen),
\* and the read of motion_complete_flag
LoopTop(pressed) ==
    /\ pc = "loop"
    /\ isr_left' = MaxIsrPerStep
    /\ UNCHANGED <<shaft, quad, arg, varsA>>
    /\ encoder' = IF pressed THEN resetEncoder(updateEncoder(encoder))
                  ELSE updateEncoder(encoder)
    /\ out' = IF pressed THEN <<"ENCODER_RESET">> ELSE <<>>
    /\ pc' = IF motor.motion_complete_flag THEN "clear" ELSE "status"
    /\ UNCHANGED <<motor, step_pin, dir_pin, timer_alarm, steps_read, last, settled>>

\* motor.motion_complete_flag = false, then the choice of the branch
ClearFlag ==
    /\ pc = "clear"
    /\ isr_left' = MaxIsrPerStep
    /\ UNCHANGED <<shaft, quad, arg, varsA>>
    /\ motor' = [motor EXCEPT !.motion_complete_flag = FALSE]
    /\ IF motor.closed_loop_enabled
       THEN pc' = "corr" /\ out' = <<>> /\ UNCHANGED settled
       ELSE pc' = "status" /\ out' = <<"AT_TARGET">> /\ settled' = TRUE
    /\ UNCHANGED <<encoder, step_pin, dir_pin, timer_alarm, steps_read, last>>

\* error_in of closedLoopCorrection
CorrError == motor.target_position_in - encoder.position_in

\* closedLoopCorrection after the settle delay: the tolerance check, the
\* alarm with stop(), or syncMotorStepsWithEncoder and the CORRECTING line
CorrCheck ==
    /\ pc = "corr"
    /\ isr_left' = MaxIsrPerStep
    /\ UNCHANGED <<shaft, quad, arg, varsA>>
    /\ IF Abs(CorrError) <= POSITION_TOLERANCE_IN
       THEN /\ out' = <<"AT_TARGET">>
            /\ pc' = "status"
            /\ settled' = TRUE
            /\ UNCHANGED <<motor, last>>
       ELSE IF Abs(CorrError) > MAX_POSITION_ERROR_IN
       THEN /\ out' = <<"ERROR Position error too large", "STOPPED">>
            /\ motor' = [motor EXCEPT !.in_motion = FALSE]
            /\ last' = "alarm"
            /\ pc' = "status"
            /\ UNCHANGED settled
       ELSE /\ motor' = syncMotorStepsWithEncoder(motor, encoder)
            /\ out' = <<"CORRECTING">>
            /\ pc' = "c_read"
            /\ UNCHANGED <<last, settled>>
    /\ UNCHANGED <<encoder, step_pin, dir_pin, timer_alarm, steps_read>>

\* correction_steps of closedLoopCorrection
CorrSteps == ToSteps(CorrError)

\* the read of motor.current_steps in line 448
CorrRead ==
    /\ pc = "c_read"
    /\ isr_left' = MaxIsrPerStep
    /\ UNCHANGED <<shaft, quad, arg, varsA>>
    /\ steps_read' = motor.current_steps
    /\ pc' = "c_target"
    /\ out' = <<>>
    /\ UNCHANGED <<motor, encoder, step_pin, dir_pin, timer_alarm, last, settled>>

\* the write of motor.target_steps in line 448
CorrTarget ==
    /\ pc = "c_target"
    /\ isr_left' = MaxIsrPerStep
    /\ UNCHANGED <<shaft, quad, arg, varsA>>
    /\ motor' = [motor EXCEPT !.target_steps = steps_read + CorrSteps]
    /\ steps_read' = 0
    /\ pc' = "c_dir"
    /\ UNCHANGED <<encoder, step_pin, dir_pin, timer_alarm, out, last, settled>>

CorrDir ==
    /\ pc = "c_dir"
    /\ isr_left' = MaxIsrPerStep
    /\ UNCHANGED <<shaft, quad, arg, varsA>>
    /\ motor' = [motor EXCEPT !.direction = (CorrSteps > 0)]
    /\ dir_pin' = (CorrSteps > 0)
    /\ pc' = "c_go"
    /\ UNCHANGED <<encoder, step_pin, timer_alarm, steps_read, out, last, settled>>

\* correction velocity of lines 459-464
CorrectionVel(base) ==
    LET scaled == base \div CORRECTION_VELOCITY_SCALE
    IN IF scaled < MIN_CORRECTION_VEL_IPS THEN MIN_CORRECTION_VEL_IPS ELSE scaled

\* lines 459-466: correction velocity, updateTimerFrequency, in_motion = true
CorrGo ==
    /\ pc = "c_go"
    /\ isr_left' = MaxIsrPerStep
    /\ UNCHANGED <<shaft, quad, arg, varsA>>
    /\ LET m == updateTimerFrequency(
                  [motor EXCEPT !.velocity_ips = CorrectionVel(motor.base_velocity_ips)])
       IN /\ motor' = [m EXCEPT !.in_motion = TRUE]
          /\ timer_alarm' = m.step_interval_us \div 2
    /\ pc' = "status"
    /\ UNCHANGED <<encoder, step_pin, dir_pin, steps_read, out, last, settled>>

\* the periodic status line (elapsed: STATUS_UPDATE_MS have passed)
StatusUpdate ==
    /\ pc = "status"
    /\ isr_left' = MaxIsrPerStep
    /\ UNCHANGED <<shaft, quad, arg, varsA>>
    /\ \E elapsed \in BOOLEAN : out' = IF elapsed THEN <<"POS">> ELSE <<>>
    /\ pc' = "cmd"
    /\ UNCHANGED <<motor, encoder, step_pin, dir_pin, timer_alarm, steps_read, last, settled>>

\* ------------------------------------------------------------------------
\* processSerialCommand()
\* ------------------------------------------------------------------------
NoCommand ==
    /\ pc = "cmd"
    /\ isr_left' = MaxIsrPerStep
    /\ UNCHANGED <<shaft, quad, arg, varsA>>
    /\ pc' = "loop"
    /\ out' = <<>>
    /\ UNCHANGED <<motor, encoder, step_pin, dir_pin, timer_alarm, steps_read, last, settled>>

\* error_in of gotoPosition (actual_pos is encoder.position_in)
GotoError == motor.target_position_in -
             (IF detected THEN encoder.position_in
              ELSE motor.current_steps * STEPS_PER_IN)

\* g: lines 563-574
gotoPosition(position_in) ==
    /\ pc = "cmd"
    /\ isr_left' = MaxIsrPerStep
    /\ UNCHANGED <<shaft, quad, arg, varsA>>
    /\ LET m == syncMotorStepsWithEncoder(
                  [motor EXCEPT !.target_position_in = position_in], encoder)
           error_in == position_in - encoder.position_in
       IN /\ motor' = m
          /\ IF Abs(error_in) <= POSITION_TOLERANCE_IN
             THEN out' = <<"AT_TARGET">> /\ pc' = "loop_end" /\ settled' = TRUE
             ELSE out' = <<>> /\ pc' = "g_read" /\ settled' = FALSE
    /\ last' = "g"
    /\ UNCHANGED <<encoder, step_pin, dir_pin, timer_alarm, steps_read>>

\* the read of motor.current_steps in line 576
GotoRead ==
    /\ pc = "g_read"
    /\ isr_left' = MaxIsrPerStep
    /\ UNCHANGED <<shaft, quad, arg, varsA>>
    /\ steps_read' = motor.current_steps
    /\ pc' = "g_target"
    /\ UNCHANGED <<motor, encoder, step_pin, dir_pin, timer_alarm, out, last, settled>>

\* the write of motor.target_steps in line 576
GotoTarget ==
    /\ pc = "g_target"
    /\ isr_left' = MaxIsrPerStep
    /\ UNCHANGED <<shaft, quad, arg, varsA>>
    /\ motor' = [motor EXCEPT !.target_steps = steps_read + ToSteps(GotoError)]
    /\ steps_read' = 0
    /\ pc' = "g_dir"
    /\ UNCHANGED <<encoder, step_pin, dir_pin, timer_alarm, out, last, settled>>

GotoDir ==
    /\ pc = "g_dir"
    /\ isr_left' = MaxIsrPerStep
    /\ UNCHANGED <<shaft, quad, arg, varsA>>
    /\ motor' = [motor EXCEPT !.direction = (GotoError > 0)]
    /\ dir_pin' = (GotoError > 0)
    /\ pc' = "g_go"
    /\ UNCHANGED <<encoder, step_pin, timer_alarm, steps_read, out, last, settled>>

\* lines 587-598: updateTimerFrequency, in_motion = true, the MOVING line
GotoGo ==
    /\ pc = "g_go"
    /\ isr_left' = MaxIsrPerStep
    /\ UNCHANGED <<shaft, quad, arg, varsA>>
    /\ LET m == updateTimerFrequency(motor)
       IN /\ motor' = [m EXCEPT !.in_motion = TRUE]
          /\ timer_alarm' = m.step_interval_us \div 2
    /\ out' = <<"MOVING">>
    /\ pc' = "loop_end"
    /\ UNCHANGED <<encoder, step_pin, dir_pin, steps_read, last, settled>>

\* h: line 602
home ==
    /\ pc = "cmd"
    /\ isr_left' = MaxIsrPerStep
    /\ UNCHANGED <<shaft, quad, arg, varsA>>
    /\ motor' = [motor EXCEPT !.current_steps = 0]
    /\ pc' = "h_target"
    /\ out' = <<>>
    /\ last' = "h"
    /\ settled' = FALSE
    /\ UNCHANGED <<encoder, step_pin, dir_pin, timer_alarm, steps_read>>

\* line 603
HomeTarget ==
    /\ pc = "h_target"
    /\ isr_left' = MaxIsrPerStep
    /\ UNCHANGED <<shaft, quad, arg, varsA>>
    /\ motor' = [motor EXCEPT !.target_steps = 0]
    /\ pc' = "h_stop"
    /\ UNCHANGED <<encoder, step_pin, dir_pin, timer_alarm, steps_read, out, last, settled>>

\* lines 604-610: in_motion = false, syncMotorStepsWithEncoder, resetEncoder
HomeStop ==
    /\ pc = "h_stop"
    /\ isr_left' = MaxIsrPerStep
    /\ UNCHANGED <<shaft, quad, arg, varsA>>
    /\ motor' = syncMotorStepsWithEncoder(
                  [motor EXCEPT !.target_position_in = 0, !.in_motion = FALSE],
                  encoder)
    /\ encoder' = resetEncoder(encoder)
    /\ out' = <<"ENCODER_RESET", "HOMED">>
    /\ pc' = "loop_end"
    /\ UNCHANGED <<step_pin, dir_pin, timer_alarm, steps_read, last, settled>>

\* s, with the target pulled to the position reached
stop_retarget ==
    /\ pc = "cmd"
    /\ isr_left' = MaxIsrPerStep
    /\ UNCHANGED <<shaft, quad, arg, varsA>>
    /\ motor' = [motor EXCEPT !.in_motion = FALSE,
                              !.target_steps = motor.current_steps]
    /\ out' = <<"STOPPED">>
    /\ last' = "s"
    /\ settled' = FALSE
    /\ pc' = "loop_end"
    /\ UNCHANGED <<encoder, step_pin, dir_pin, timer_alarm, steps_read>>

\* s
stop ==
    /\ pc = "cmd"
    /\ isr_left' = MaxIsrPerStep
    /\ UNCHANGED <<shaft, quad, arg, varsA>>
    /\ motor' = [motor EXCEPT !.in_motion = FALSE]
    /\ out' = <<"STOPPED">>
    /\ last' = "s"
    /\ settled' = FALSE
    /\ pc' = "loop_end"
    /\ UNCHANGED <<encoder, step_pin, dir_pin, timer_alarm, steps_read>>

\* v, with only a negative velocity refused
setVelocity_negative(vel_ips) ==
    /\ pc = "cmd"
    /\ isr_left' = MaxIsrPerStep
    /\ UNCHANGED <<shaft, quad, varsA>>
    /\ IF vel_ips < 0
       THEN /\ out' = <<"ERROR Velocity must be > 0">>
            /\ UNCHANGED <<motor, timer_alarm>>
       ELSE LET m == [motor EXCEPT !.base_velocity_ips = vel_ips,
                                   !.velocity_ips = vel_ips]
            IN /\ motor' = IF motor.in_motion THEN updateTimerFrequency(m) ELSE m
               /\ timer_alarm' = IF motor.in_motion
                                 THEN StepInterval(vel_ips) \div 2
                                 ELSE timer_alarm
               /\ out' = <<"VELOCITY">>
    /\ pc' = "loop_end"
    /\ settled' = FALSE
    /\ UNCHANGED <<encoder, step_pin, dir_pin, steps_read, last>>

\* v
setVelocity(vel_ips) ==
    /\ pc = "cmd"
    /\ isr_left' = MaxIsrPerStep
    /\ UNCHANGED <<shaft, quad, varsA>>
    /\ IF vel_ips <= 0
       THEN /\ out' = <<"ERROR Velocity must be > 0">>
            /\ UNCHANGED <<motor, timer_alarm>>
       ELSE LET m == [motor EXCEPT !.base_velocity_ips = vel_ips,
                                   !.velocity_ips = vel_ips]
            IN /\ motor' = IF motor.in_motion THEN updateTimerFrequency(m) ELSE m
               /\ timer_alarm' = IF motor.in_motion
                                 THEN StepInterval(vel_ips) \div 2
                                 ELSE timer_alarm
               /\ out' = <<"VELOCITY">>
    /\ pc' = "loop_end"
    /\ settled' = FALSE
    /\ UNCHANGED <<encoder, step_pin, dir_pin, steps_read, last>>

\* r, re-homing the open-loop counter as h does
resetEncoderCmd_rehome ==
    /\ pc = "cmd"
    /\ isr_left' = MaxIsrPerStep
    /\ UNCHANGED <<shaft, quad, arg, varsA>>
    /\ encoder' = resetEncoder(encoder)
    /\ motor' = [motor EXCEPT !.current_steps = 0]
    /\ out' = <<"ENCODER_RESET">>
    /\ pc' = "loop_end"
    /\ settled' = FALSE
    /\ UNCHANGED <<step_pin, dir_pin, timer_alarm, steps_read, last>>

\* r
resetEncoderCmd ==
    /\ pc = "cmd"
    /\ isr_left' = MaxIsrPerStep
    /\ UNCHANGED <<shaft, quad, arg, varsA>>
    /\ encoder' = resetEncoder(encoder)
    /\ out' = <<"ENCODER_RESET">>
    /\ pc' = "loop_end"
    /\ settled' = FALSE
    /\ UNCHANGED <<motor, step_pin, dir_pin, timer_alarm, steps_read, last>>

\* i, ? and an unknown first character
queryCmd ==
    /\ pc = "cmd"
    /\ isr_left' = MaxIsrPerStep
    /\ UNCHANGED <<shaft, quad, arg, varsA>>
    /\ \E line \in {"ID:ESP32B", "STATUS", "ERROR Unknown command"} :
         /\ out' = <<line>>
         /\ settled' = IF line = "STATUS" THEN settled ELSE FALSE
    /\ pc' = "loop_end"
    /\ UNCHANGED <<motor, encoder, step_pin, dir_pin, timer_alarm, steps_read, last>>

processSerialCommand(positions) ==
    \/ NoCommand
    \/ \E position_in \in positions : gotoPosition(position_in)
    \/ home
    \/ stop
    \/ \E text \in VelTexts : arg' = text /\ setVelocity(toFloat(text))
    \/ resetEncoderCmd
    \/ queryCmd

\* return to loop() and its delay(2)
LoopEnd ==
    /\ pc = "loop_end"
    /\ isr_left' = MaxIsrPerStep
    /\ UNCHANGED <<shaft, quad, varsA>>
    /\ arg' = ""
    /\ pc' = "loop"
    /\ out' = <<>>
    /\ UNCHANGED <<motor, encoder, step_pin, dir_pin, timer_alarm, steps_read, last, settled>>

\* the statements of loop(), closedLoopCorrection() and gotoPosition() that
\* follow the first statement of loop() and the read of a command line
MainB ==
    \/ LoopEnd
    \/ ClearFlag
    \/ CorrCheck
    \/ CorrRead
    \/ CorrTarget
    \/ CorrDir
    \/ CorrGo
    \/ StatusUpdate
    \/ GotoRead
    \/ GotoTarget
    \/ GotoDir
    \/ GotoGo

\* ------------------------------------------------------------------------
\* The axis coupled to its encoder: the driver takes one motor step, in the
\* direction of M3_DIR_PIN, on each rising edge of M3_STEP_PIN, and four motor
\* steps (STEPS_PER_REV / (4 * ENCODER_PPR)) turn the encoder by one count.
\* ------------------------------------------------------------------------
StepsPerCount == IN_PER_COUNT \div STEPS_PER_IN

ShaftStep(e, sh, forward) ==
    IF forward
    THEN IF sh + 1 = StepsPerCount
         THEN <<[e EXCEPT !.counts = e.counts + 1], 0>>
         ELSE <<e, sh + 1>>
    ELSE IF sh = 0
         THEN <<[e EXCEPT !.counts = e.counts - 1], StepsPerCount - 1>>
         ELSE <<e, sh - 1>>

StepRangeFollow == (-MaxRunaway) .. (ToSteps(220) + MaxRunaway)

TickFollow ==
    /\ pc \in DelayPcs \/ isr_left > 0
    /\ motor.current_steps \in StepRangeFollow
    /\ onTimer
    /\ isr_left' = IF pc \in DelayPcs THEN isr_left ELSE isr_left - 1
    /\ LET moved == ShaftStep(encoder, shaft, dir_pin)
       IN IF step_pin' /\ ~step_pin
          THEN encoder' = moved[1] /\ shaft' = moved[2]
          ELSE UNCHANGED <<encoder, shaft>>
    /\ UNCHANGED <<quad, arg, varsA>>

\* ========================================================================
\* ESP32-A: blade M1 and feed M2
\* ========================================================================
M1_PULSES_PER_REV == 22333
MAX_FREQ_HZ == 375000
M2_STEPS_PER_MM == 750
MIN_FREQ_HZ == 1
M1_RPM_MIN == 100
M1_RPM_MAX == 6000
M2_VEL_MIN == 1000             \* 1.0 mm/s
M2_VEL_MAX == 400000           \* 400.0 mm/s
M2_VEL_DEFAULT == 120000       \* 120.0 mm/s
PWM_SETUP_FREQ == 1000         \* pwm_config.frequency of setup()

\* resolution of the doubles: m1.freq_hz is carried in 1/60 Hz (rpm *
\* M1_PULSES_PER_REV is then exact), m2.vel_mm_s and m2.freq_hz in 1/1000
M1Unit == 60
M2Unit == 1000

\* arguments the host sends with 1r and with 2v
RpmInputs == {-65436, -1, 0, 99, 100, 1007, 1008, 6000, 6001, 65636}
VelInputsA == {-1000, 0, 999, 1000, 1125, 120000, 400000, 400001}

\* uint16_t rpm = arg.toInt(): the long is converted modulo 2^16
ToUint16(n) == n % 65536

\* printf("%.1f") of a value v carried in 1/unit: tenths, rounded to nearest
\* (no input of the model makes a tie)
FormatTenths(v, unit) == (v * 10 + unit \div 2) \div unit

Response(line, args) == [line |-> line, args |-> args]

\* the two clamps of m1_pwm_set_frequency and m2_pwm_set_frequency
ClampFreq(freq_hz, unit) ==
    IF freq_hz < MIN_FREQ_HZ * unit THEN MIN_FREQ_HZ * unit
    ELSE IF freq_hz > MAX_FREQ_HZ * unit THEN MAX_FREQ_HZ * unit
    ELSE freq_hz

\* variant: the frequency is rounded to the nearest Hz
m1_pwm_set_frequency_rounded(p, freq_hz) ==
    [p EXCEPT !.frequency = (ClampFreq(freq_hz, M1Unit) + M1Unit \div 2) \div M1Unit]

\* mcpwm_set_frequency(..., (uint32_t)freq_hz)
m1_pwm_set_frequency(p, freq_hz) ==
    [p EXCEPT !.frequency = ClampFreq(freq_hz, M1Unit) \div M1Unit]

m1_pwm_enable(p, enable) == [p EXCEPT !.enabled = enable]

m2_pwm_set_frequency(p, freq_hz) ==
    [p EXCEPT !.frequency = ClampFreq(freq_hz, M2Unit) \div M2Unit]

m2_pwm_enable(p, enable) == [p EXCEPT !.enabled = enable]

is_m2_home_active == home_low

\* setup()
InitA ==
    /\ m1 = [running |-> FALSE, rpm |-> 0, freq_hz |-> 0]
    /\ m2 = [in_motion |-> FALSE, direction_fwd |-> FALSE, vel_mm_s |-> 0,
             freq_hz |-> 0]
    /\ pwm1 = [frequency |-> PWM_SETUP_FREQ, enabled |-> FALSE]
    /\ pwm2 = [frequency |-> PWM_SETUP_FREQ, enabled |-> FALSE]
    /\ m2_dir_pin = FALSE
    /\ home_low = FALSE
    /\ cmdA = [op |-> "", arg |-> 0]
    /\ outA = <<>>
    /\ pcA = "cmd"

\* processSerialCommand reads the line op<arg>, echoes it and dispatches
Take(op, argument) ==
    /\ pcA = "cmd"
    /\ cmdA' = [op |-> op, arg |-> argument]
    /\ pcA' = "check"
    /\ UNCHANGED <<home_low, varsB>>

Echo == Response("CMD", <<>>)

\* no line is available, or the line is empty after trim()
NoCommandA ==
    /\ Take("", 0)
    /\ outA' = <<>>
    /\ UNCHANGED <<m1, m2, pwm1, pwm2, m2_dir_pin>>

\* I, and a first character that is no command
identify ==
    /\ \E op \in {"I", "x"} :
         /\ Take(op, 0)
         /\ outA' = <<Echo, Response(IF op = "I" THEN "ID:ESP32A"
                                     ELSE "ERROR Unknown command", <<>>)>>
    /\ UNCHANGED <<m1, m2, pwm1, pwm2, m2_dir_pin>>

\* 1 and 2 followed by an unknown sub-command
UnknownSub ==
    /\ \E op \in {"1?", "2?"} :
         /\ Take(op, 0)
         /\ outA' = <<Echo, Response(IF op = "1?" THEN "ERROR M1 unknown subcommand"
                                     ELSE "ERROR M2 unknown subcommand", <<>>)>>
    /\ UNCHANGED <<m1, m2, pwm1, pwm2, m2_dir_pin>>

queryStatus ==
    /\ Take("?", 0)
    /\ outA' = <<Echo,
                 Response("STATUS M1:" \o (IF m1.running THEN "RUN" ELSE "STOP")
                          \o " M2:" \o (IF m2.in_motion THEN "MOVING" ELSE "STOP")
                          \o " dir=" \o (IF m2.direction_fwd THEN "FWD" ELSE "REV"),
                          <<m1.rpm, FormatTenths(m2.vel_mm_s, M2Unit)>>)>>
    /\ UNCHANGED <<m1, m2, pwm1, pwm2, m2_dir_pin>>

\* 1r<n>: uint16_t rpm = arg.toInt(), then m1_set_rpm(rpm)
m1_set_rpm(n) ==
    /\ Take("1r", n)
    /\ LET rpm == ToUint16(n)
           freq_hz == IF rpm * M1_PULSES_PER_REV > MAX_FREQ_HZ * M1Unit
                      THEN MAX_FREQ_HZ * M1Unit
                      ELSE rpm * M1_PULSES_PER_REV
       IN IF rpm < M1_RPM_MIN \/ rpm > M1_RPM_MAX
          THEN /\ outA' = <<Echo, Response("ERROR M1 RPM out of range (100-6000)", <<>>)>>
               /\ UNCHANGED <<m1, pwm1>>
          ELSE /\ m1' = [running |-> TRUE, rpm |-> rpm, freq_hz |-> freq_hz]
               /\ pwm1' = m1_pwm_enable(m1_pwm_set_frequency(pwm1, freq_hz), TRUE)
               /\ outA' = <<Echo, Response("M1_RUN",
                                           <<rpm, FormatTenths(freq_hz, M1Unit)>>)>>
    /\ UNCHANGED <<m2, pwm2, m2_dir_pin>>

\* 1s
m1_stop ==
    /\ Take("1s", 0)
    /\ pwm1' = m1_pwm_enable(pwm1, FALSE)
    /\ m1' = [m1 EXCEPT !.running = FALSE, !.freq_hz = 0]
    /\ outA' = <<Echo, Response("M1_STOPPED", <<>>)>>
    /\ UNCHANGED <<m2, pwm2, m2_dir_pin>>

\* the common part of m2_feed_forward and m2_feed_reverse: the default
\* velocity, the frequency and the pulse generator
FeedStart(fwd) ==
    LET vel == IF m2.vel_mm_s = 0 THEN M2_VEL_DEFAULT ELSE m2.vel_mm_s
        freq_hz == vel * M2_STEPS_PER_MM
    IN /\ m2' = [in_motion |-> TRUE, direction_fwd |-> fwd, vel_mm_s |-> vel,
                 freq_hz |-> freq_hz]
       /\ pwm2' = m2_pwm_enable(m2_pwm_set_frequency(pwm2, freq_hz), TRUE)

\* 2f; M2_DIR_FWD is false, so forward drives M2_DIR_PIN low
m2_feed_forward ==
    /\ Take("2f", 0)
    /\ m2_dir_pin' = FALSE
    /\ FeedStart(TRUE)
    /\ outA' = <<Echo, Response("M2_FWD", <<>>)>>
    /\ UNCHANGED <<m1, pwm1>>

\* variant: 2b without the check of the home sensor
m2_feed_reverse_unchecked ==
    /\ Take("2b", 0)
    /\ m2_dir_pin' = TRUE
    /\ FeedStart(FALSE)
    /\ outA' = <<Echo, Response("M2_REV", <<>>)>>
    /\ UNCHANGED <<m1, pwm1>>

\* 2b
m2_feed_reverse ==
    /\ Take("2b", 0)
    /\ IF is_m2_home_active
       THEN /\ outA' = <<Echo, Response("ERROR M2_HOME_ACTIVE", <<>>)>>
            /\ UNCHANGED <<m2, pwm2, m2_dir_pin>>
       ELSE /\ m2_dir_pin' = TRUE
            /\ FeedStart(FALSE)
            /\ outA' = <<Echo, Response("M2_REV", <<>>)>>
    /\ UNCHANGED <<m1, pwm1>>

\* the body of m2_stop
StopM2 ==
    /\ pwm2' = m2_pwm_enable(pwm2, FALSE)
    /\ m2' = [m2 EXCEPT !.in_motion = FALSE, !.freq_hz = 0]

\* 2s
m2_stop ==
    /\ Take("2s", 0)
    /\ StopM2
    /\ outA' = <<Echo, Response("M2_STOPPED", <<>>)>>
    /\ UNCHANGED <<m1, pwm1, m2_dir_pin>>

\* 2v<vel>
m2_set_velocity(vel_mm_s) ==
    /\ Take("2v", vel_mm_s)
    /\ IF vel_mm_s < M2_VEL_MIN \/ vel_mm_s > M2_VEL_MAX
       THEN /\ outA' = <<Echo, Response("ERROR M2 velocity out of range (1-400 mm/s)",
                                        <<>>)>>
            /\ UNCHANGED <<m2, pwm2>>
       ELSE /\ m2' = [m2 EXCEPT !.vel_mm_s = vel_mm_s,
                                !.freq_hz = IF m2.in_motion
                                            THEN vel_mm_s * M2_STEPS_PER_MM
                                            ELSE m2.freq_hz]
            /\ pwm2' = IF m2.in_motion
                       THEN m2_pwm_set_frequency(pwm2, vel_mm_s * M2_STEPS_PER_MM)
                       ELSE pwm2
            /\ outA' = <<Echo, Response("M2_VEL_SET",
                                        <<FormatTenths(vel_mm_s, M2Unit)>>)>>
    /\ UNCHANGED <<m1, pwm1, m2_dir_pin>>

\* m2_check_home_stop without the test of the direction
m2_check_home_stop_any_direction ==
    /\ pcA = "check"
    /\ IF m2.in_motion /\ is_m2_home_active
       THEN /\ StopM2
            /\ outA' = <<Response("M2_STOPPED", <<>>)>>
       ELSE /\ outA' = <<>>
            /\ UNCHANGED <<m2, pwm2>>
    /\ pcA' = "status"
    /\ UNCHANGED <<m1, pwm1, m2_dir_pin, home_low, cmdA, varsB>>

\* loop(): m2_check_home_stop
m2_check_home_stop ==
    /\ pcA = "check"
    /\ IF m2.in_motion /\ ~m2.direction_fwd /\ is_m2_home_active
       THEN /\ StopM2
            /\ outA' = <<Response("M2_STOPPED", <<>>)>>
       ELSE /\ outA' = <<>>
            /\ UNCHANGED <<m2, pwm2>>
    /\ pcA' = "status"
    /\ UNCHANGED <<m1, pwm1, m2_dir_pin, home_low, cmdA, varsB>>

\* loop(), "Send status update every 100ms": the test of the period
\* (elapsed: now - last_status_ms >= 100)
StatusPeriodA ==
    /\ pcA = "status"
    /\ \E elapsed \in BOOLEAN : pcA' = IF elapsed THEN "beat" ELSE "cmd"
    /\ outA' = <<>>
    /\ UNCHANGED <<m1, m2, pwm1, pwm2, m2_dir_pin, home_low, cmdA, varsB>>

\* the body of the test: last_status_ms = now, heartbeat_counter++ (both are
\* only written); nothing is sent
heartbeat ==
    /\ pcA = "beat"
    /\ outA' = <<>>
    /\ pcA' = "cmd"
    /\ UNCHANGED <<m1, m2, pwm1, pwm2, m2_dir_pin, home_low, cmdA, varsB>>

\* the home sensor changes its level
HomeSensor ==
    /\ home_low' = ~home_low
    /\ UNCHANGED <<m1, m2, pwm1, pwm2, m2_dir_pin, cmdA, outA, pcA, varsB>>

\* ========================================================================
\* Specifications
\* ========================================================================
Init == InitB /\ InitA /\ quad = QuadAt(0)

\* ESP32-B with the encoder moved by the environment
Next ==
    \/ \E pressed \in BOOLEAN : LoopTop(pressed)
    \/ MainB
    \/ processSerialCommand(Targets)
    \/ HomeTarget
    \/ HomeStop
    \/ Tick
    \/ EncoderEdge
    \/ EncoderSlip

Spec == Init /\ [][Next]_vars

\* ESP32-B with the encoder coupled to the motor and the button not pressed;
\* the host sends go-to commands and status queries.  The hardware timer
\* reloads itself and loop() is called again for ever.
MainFollow ==
    \/ LoopTop(FALSE)
    \/ MainB
    \/ NoCommand

NextFollow ==
    \/ LoopTop(FALSE)
    \/ MainB
    \/ NoCommand
    \/ \E position_in \in TargetsFollow : gotoPosition(position_in)
    \/ queryCmd
    \/ TickFollow

SpecFollow ==
    Init /\ [][NextFollow]_vars /\ WF_vars(TickFollow) /\ WF_vars(MainFollow)

\* ESP32-B beside the machine's home sensor (the only home/limit input the
\* firmware of the machine reads, on ESP32-A): the firmware of ESP32-B
\* configures and reads no such input, so the sensor changes level freely
\* while go-to commands are processed.
NextLimit ==
    \/ LoopTop(FALSE)
    \/ MainB
    \/ NoCommand
    \/ \E position_in \in Targets : gotoPosition(position_in)
    \/ Tick
    \/ EncoderEdge
    \/ HomeSensor

SpecLimit == Init /\ [][NextLimit]_vars

\* The quadrature decoder of ESP32-B with the encoder pins at any level at
\* setup() and changing level in any order
InitQuad == InitB /\ InitA /\ quad \in {QuadAt(ab) : ab \in 0 .. 3}

NextQuad ==
    \/ \E ch \in Channels : PinChange(ch)
    \/ \E ch \in Channels : EncoderIsr(ch)

SpecQuad == InitQuad /\ [][NextQuad]_vars

\* ESP32-B with go-to commands and v commands over the whole range of
\* velocities, the encoder moved by the environment
NextTimer ==
    \/ LoopTop(FALSE)
    \/ MainB
    \/ NoCommand
    \/ \E position_in \in Targets : gotoPosition(position_in)
    \/ \E text \in VelTextsWide : arg' = text /\ setVelocity(toFloat(text))
    \/ Tick
    \/ EncoderEdge

SpecTimer == Init /\ [][NextTimer]_vars

\* ESP32-A
NextA ==
    \/ NoCommandA
    \/ identify
    \/ UnknownSub
    \/ queryStatus
    \/ \E n \in RpmInputs : m1_set_rpm(n)
    \/ m1_stop
    \/ m2_feed_forward
    \/ m2_feed_reverse
    \/ m2_stop
    \/ \E vel_mm_s \in VelInputsA : m2_set_velocity(vel_mm_s)
    \/ m2_check_home_stop
    \/ StatusPeriodA
    \/ heartbeat
    \/ HomeSensor

SpecA == Init /\ [][NextA]_vars

\* ========================================================================
\* Properties of ESP32-B
\* ========================================================================
AtTargetSent == out = <<"AT_TARGET">>
AlarmSent == Len(out) = 2 /\ out[1] = "ERROR Position error too large"
MovingSent == out = <<"MOVING">>
HomedSent == out = <<"ENCODER_RESET", "HOMED">>

\* C1: once a stop command has been processed, motor.in_motion is false and
\* stays false (no step pulse, no correction move) until the next go-to
\* command; here: for as long as stop is the last of go-to, home, stop and
\* alarm.
StopHolds == last = "s" => ~motor.in_motion

\* C2: in every reachable state in which motor.in_motion is false the step
\* output pin is low.
StepPinLowWhenIdle == ~motor.in_motion => ~step_pin

\* C3: when a home command has been processed (the HOMED line is sent),
\* motor.current_steps, motor.target_steps, the encoder raw count and the
\* encoder position are all 0 and motor.in_motion is false.
HomeZeroesAll ==
    (pc = "loop_end" /\ HomedSent) =>
        /\ motor.current_steps = 0
        /\ motor.target_steps = 0
        /\ encoder.counts = 0
        /\ encoder.position_in = 0
        /\ ~motor.in_motion

\* C4, the two sides of the alarm threshold: a correction is issued only for
\* an error of at most MAX_POSITION_ERROR_IN (the threshold itself included),
\* and the alarm is raised only for a larger one.
AlarmThreshold ==
    /\ pc = "c_read" => Abs(CorrError) <= MAX_POSITION_ERROR_IN
    /\ (pc = "status" /\ AlarmSent) => Abs(CorrError) > MAX_POSITION_ERROR_IN

\* C4: an error of exactly MAX_POSITION_ERROR_IN raises no alarm, a larger one
\* does, and after the alarm motor.in_motion is false and stays false, with no
\* correction retried, until a new home or go-to command.
AlarmLatches ==
    /\ AlarmThreshold
    /\ last = "alarm" => ~motor.in_motion

\* C7: when a go-to is processed while another one is still moving, the
\* MOVING line finds in_motion set and the direction of the new command, and
\* every step the timer ISR counts after the new target has been written
\* (before the direction is) goes in the direction of the new command.
SecondGotoOnly ==
    [][ /\ (pc = "g_go" /\ pc' = "loop_end") =>
              (motor'.in_motion /\ motor'.direction = (GotoError > 0))
        /\ (pc = "g_dir" /\ motor'.current_steps # motor.current_steps) =>
              ((motor'.current_steps > motor.current_steps) <=> (GotoError > 0))
      ]_vars

\* C5: with the timer ticking, the encoder following the emitted steps and no
\* further command, every MOVING response is eventually followed by an
\* AT_TARGET line or by the alarm line.
CommandRead == pc = "g_read" \/ (pc = "loop_end" /\ ~MovingSent)

MovingEnds == MovingSent ~> (AtTargetSent \/ AlarmSent \/ CommandRead)

\* C6: once AT_TARGET has been reported for a go-to to X, a status query with
\* no other command in between reports an encoder position within
\* POSITION_TOLERANCE_IN of X.
StatusWithinTolerance ==
    (pc = "loop_end" /\ out = <<"STATUS">> /\ settled) =>
        Abs(motor.target_position_in - encoder.position_in) <= POSITION_TOLERANCE_IN

\* ========================================================================
\* Properties of ESP32-A
\* ========================================================================
\* the command op has just been processed, and answered with the line
Answered(op, line) ==
    pcA = "check" /\ cmdA.op = op /\ Len(outA) = 2 /\ outA[2].line = line

\* C8: 1r<n> is accepted if and only if 100 <= n <= 6000, for every integer n;
\* every other n yields the range error and leaves m1 unchanged.
RpmAcceptedIffInRange ==
    [][ (pcA = "cmd" /\ pcA' = "check" /\ cmdA'.op = "1r") =>
          LET n == cmdA'.arg
              in_range == 100 <= n /\ n <= 6000
          IN /\ (outA'[2].line = "M1_RUN") <=> in_range
             /\ ~in_range =>
                  /\ outA'[2].line = "ERROR M1 RPM out of range (100-6000)"
                  /\ m1' = m1
      ]_vars

\* speed * pulses-per-unit clamped to [1, 375000] Hz, in 1/unit Hz
ClampedProduct(speed, per_unit, unit) ==
    LET f == speed * per_unit
    IN IF f < unit THEN unit ELSE IF f > 375000 * unit THEN 375000 * unit ELSE f

\* the M1 response reports the rpm and the clamped frequency to one decimal
ResponseReportsM1 ==
    Answered("1r", "M1_RUN") /\ cmdA.arg \in 100 .. 6000 =>
        outA[2].args = <<cmdA.arg,
                         (ClampedProduct(cmdA.arg, 22333, 60) * 10 + 30) \div 60>>

\* a speed command has been accepted and has programmed pulse generator 1 / 2
AcceptedM1 == Answered("1r", "M1_RUN") /\ cmdA.arg \in 100 .. 6000
AcceptedM2 ==
    \/ Answered("2f", "M2_FWD")
    \/ Answered("2b", "M2_REV")
    \/ Answered("2v", "M2_VEL_SET") /\ m2.in_motion

\* C9 as stated: for every accepted speed command the frequency programmed
\* into the pulse generator equals speed * pulses-per-unit clamped to
\* [1, 375000], and the M1 response reports that rpm and that frequency.
ProgrammedFrequencyExact ==
    /\ AcceptedM1 => pwm1.frequency * 60 = ClampedProduct(cmdA.arg, 22333, 60)
    /\ AcceptedM2 => pwm2.frequency * 1000 = ClampedProduct(m2.vel_mm_s, 750, 1000)
    /\ ResponseReportsM1

\* C9, amended: for every accepted speed command the frequency programmed into
\* the pulse generator is the integer part of speed * pulses-per-unit clamped
\* to [1, 375000], and the M1 response reports that rpm and the clamped
\* frequency to one decimal.
ProgrammedFrequencyTruncated ==
    /\ AcceptedM1 => /\ pwm1.enabled
                     /\ pwm1.frequency = ClampedProduct(cmdA.arg, 22333, 60) \div 60
    /\ AcceptedM2 => /\ pwm2.enabled
                     /\ pwm2.frequency = ClampedProduct(m2.vel_mm_s, 750, 1000) \div 1000
    /\ ResponseReportsM1

\* 1r100 has been accepted: 100 * 22333 / 60 = 37221.67 Hz is programmed as 37221
TruncatedFrequencyProgrammed ==
    AcceptedM1 /\ cmdA.arg = 100 /\ pwm1.frequency = 37221

\* C10: 2b received while the home sensor is asserted is answered with
\* ERROR M2_HOME_ACTIVE; the pulse generator is neither enabled nor
\* re-programmed, the direction output and the fields of m2 are unchanged.
ReverseBlockedAtHome ==
    [][ (pcA = "cmd" /\ pcA' = "check" /\ cmdA'.op = "2b" /\ home_low) =>
          /\ outA'[2].line = "ERROR M2_HOME_ACTIVE"
          /\ pwm2' = pwm2
          /\ m2_dir_pin' = m2_dir_pin
          /\ m2' = m2
      ]_vars

\* 2b has been refused while M2 was stopped after a forward feed
ReverseRefused ==
    /\ Answered("2b", "ERROR M2_HOME_ACTIVE")
    /\ home_low
    /\ ~m2.in_motion
    /\ ~m2_dir_pin

\* ========================================================================
\* Properties of ESP32-B, continued
\* ========================================================================
\* the go-to being processed needs motion in the reverse direction
ReverseRequired(position_in) ==
    position_in - encoder.position_in < -POSITION_TOLERANCE_IN

\* C11: a go-to that requires reverse motion, received by the idle axis while
\* the home/limit sensor is asserted, is rejected outright: the command ends
\* there, in_motion stays false and target_steps is unchanged (so that no step
\* pulse follows).
ReverseGotoRejected ==
    [][ ( /\ pc = "cmd" /\ last' = "g" /\ pc' # "cmd"
          /\ home_low
          /\ ~motor.in_motion
          /\ ReverseRequired(motor'.target_position_in) ) =>
          /\ pc' = "loop_end"
          /\ ~motor'.in_motion
          /\ motor'.target_steps = motor.target_steps
      ]_vars

\* the lines a command of ESP32-B was answered with (the CMD echo apart), and
\* the lines, echo included, a command of ESP32-A was answered with
OneResponseB == pc = "loop_end" => Len(out) = 1
OneResponseA == pcA = "check" /\ cmdA.op # "" => Len(outA) = 2 /\ outA[1] = Echo

\* C12: every accepted command line is answered with exactly one direct
\* response line besides its CMD echo before the next command is read, on
\* ESP32-B (g, h, s, v, r, i, ?) and on ESP32-A (I, ?, 1r, 1s, 2f, 2b, 2s, 2v).
OneResponsePerCommand == OneResponseB /\ OneResponseA

\* the error lines of the two controllers
ErrorLinesB ==
    {"ERROR Unknown command", "ERROR Velocity must be > 0",
     "ERROR Position error too large"}
ErrorLinesA ==
    {"ERROR Unknown command", "ERROR M1 unknown subcommand",
     "ERROR M2 unknown subcommand", "ERROR M1 RPM out of range (100-6000)",
     "ERROR M2_HOME_ACTIVE", "ERROR M2 velocity out of range (1-400 mm/s)"}

\* C13: each occurrence of an error condition (unknown command or
\* sub-command, argument out of range, blocked reverse move, excessive
\* position error) is surfaced as exactly one response line: the step that
\* reports an error sends that line and no other (on ESP32-A, after the CMD
\* echo of the command).
OneLinePerError ==
    /\ (\E i \in 1 .. Len(out) : out[i] \in ErrorLinesB) => Len(out) = 1
    /\ (\E i \in 1 .. Len(outA) : outA[i].line \in ErrorLinesA) =>
           (Len(outA) = 2 /\ outA[1] = Echo)

\* the step of loop() in which the s command is processed
StopStep == pc = "cmd" /\ pc' = "loop_end" /\ out' = <<"STOPPED">>

\* C14: stop on the axis that is already stopped yields the STOPPED response
\* and leaves motor.current_steps, motor.target_steps, the encoder count and
\* in_motion (false) unchanged, as every other field of motor and encoder and
\* the outputs; every stop leaves in_motion false, so that a second stop finds
\* the axis stopped and leaves the state of the first.
StopWhenStopped ==
    [][ StopStep =>
          /\ ~motor'.in_motion
          /\ ~motor.in_motion =>
               /\ motor'.current_steps = motor.current_steps
               /\ motor'.target_steps = motor.target_steps
               /\ encoder'.counts = encoder.counts
               /\ motor' = motor
               /\ encoder' = encoder
               /\ <<step_pin', dir_pin', timer_alarm'>> = <<step_pin, dir_pin, timer_alarm>>
      ]_vars

\* stop has been answered on the axis that has not moved since setup():
\* motor.direction still differs from the level of M3_DIR_PIN, which every
\* move that is started makes equal
StoppedWhileIdle ==
    /\ pc = "loop_end"
    /\ out = <<"STOPPED">>
    /\ ~motor.in_motion
    /\ motor.direction /\ ~dir_pin

\* the step of loop() in which the r command is processed
ResetStep == pc = "cmd" /\ pc' = "loop_end" /\ out' = <<"ENCODER_RESET">>

\* C15: the r command sets the encoder raw count and the encoder position to
\* 0 and leaves motor.current_steps, target_steps, target_position_in,
\* direction, in_motion and the velocity settings (velocity_ips,
\* base_velocity_ips, the step interval and the timer alarm) unchanged, on the
\* idle axis and on the moving one.
ResetEncoderFrame ==
    [][ ResetStep =>
          /\ encoder'.counts = 0
          /\ encoder'.position_in = 0
          /\ motor'.current_steps = motor.current_steps
          /\ motor'.target_steps = motor.target_steps
          /\ motor'.target_position_in = motor.target_position_in
          /\ motor'.direction = motor.direction
          /\ motor'.in_motion = motor.in_motion
          /\ motor'.velocity_ips = motor.velocity_ips
          /\ motor'.base_velocity_ips = motor.base_velocity_ips
          /\ motor'.step_interval_us = motor.step_interval_us
          /\ timer_alarm' = timer_alarm
      ]_vars

\* r has been answered during a move, with steps counted and steps remaining
ResetWhileMoving ==
    /\ pc = "loop_end"
    /\ out = <<"ENCODER_RESET">>
    /\ motor.in_motion
    /\ motor.current_steps # 0
    /\ motor.current_steps # motor.target_steps
    /\ encoder.counts = 0

\* the step in which handleEncoderChange() runs
DecoderStep == quad'.irq # quad.irq /\ quad'.irq \subseteq quad.irq

\* C16: each call of the decoder changes the raw count by the table value for
\* (previous AB state, current AB state): exactly +1 for a valid edge of one
\* rotation direction, exactly -1 for a valid edge of the other, 0 for a
\* repeated state and for a transition in which both channels change.
EdgeCountsRotation ==
    [][ DecoderStep =>
          /\ encoder'.counts - encoder.counts = Rotation(quad.last_ab, quad.ab)
          /\ quad'.last_ab = quad.ab
      ]_vars

\* C16, the consequence: as long as every valid edge decoded so far belongs to
\* one rotation direction, the count has moved monotonically, by exactly 1 per
\* valid edge.
SingleDirectionMonotonic ==
    /\ quad.seen \subseteq {1} => encoder.counts = quad.valid
    /\ quad.seen \subseteq {-1} => encoder.counts = -quad.valid

QuadratureDecoding == EdgeCountsRotation /\ [](SingleDirectionMonotonic)

\* three valid edges of the down direction and a bounce have been decoded
ThreeEdgesDown ==
    /\ quad.seen = {-1}
    /\ quad.valid = 3
    /\ quad.edges > 3
    /\ quad.irq = {}
    /\ encoder.counts = -3

\* the step of loop() in which a v command is processed
VelocityStep == pc = "cmd" /\ pc' = "loop_end" /\ arg' # ""

TelemetryEachPeriod ==
    [][ /\ (pcA = "beat" /\ pcA' = "cmd") => Len(outA') = 1
        /\ (pc = "status" /\ pc' = "cmd" /\ out' # <<>>) => out' = <<"POS">>
      ]_vars

\* C19: the motion-complete event is consumed for the move segment that
\* raised it: when loop() has taken the event and closedLoopCorrection() is
\* about to check the position, no move is in progress that has not signalled
\* its own completion (the timer ISR clears in_motion when it raises the
\* event, and only a go-to or a correction sets it again).
CompletionOfThisMove == pc = "corr" => ~motor.in_motion

\* C20: whenever an AT_TARGET line is sent, by the within-tolerance check of
\* go-to or by the correction check, motor.in_motion is false at that moment
\* (the axis is idle), also for a go-to received during an earlier move.
AtTargetMeansIdle == AtTargetSent => ~motor.in_motion

\* C21: the open-loop segment of every go-to move is run with the tick
\* interval derived from the commanded velocity (base_velocity_ips), whether
\* or not earlier moves went through correction cycles: when MOVING is sent
\* the step interval and the timer alarm are those of base_velocity_ips.
GotoRunsAtCommandedVelocity ==
    (pc = "loop_end" /\ MovingSent) =>
        /\ motor.velocity_ips = motor.base_velocity_ips
        /\ motor.step_interval_us = StepInterval(motor.base_velocity_ips)
        /\ timer_alarm = StepInterval(motor.base_velocity_ips) \div 2

\* C22: every correction cycle issues a move in which the timer ISR emits at
\* least one step pulse toward the target before it signals completion: when
\* the correction move is started (in_motion = true), more steps remain than
\* the ISR accepts as "at target", and they lead toward the encoder target.
CorrectionMakesProgress ==
    [][ (pc = "c_go" /\ pc' = "status") =>
          /\ Abs(motor'.target_steps - motor'.current_steps) > TolSteps
          /\ (motor'.target_steps > motor'.current_steps) <=> (CorrError > 0)
      ]_vars

\* C23: for every velocity accepted by v (any value > 0) and for every
\* correction velocity, the step interval computed by updateTimerFrequency
\* and the half interval written to the timer alarm are strictly positive,
\* and the step rate is never below 10 steps per second (the interval never
\* above 100000 us).
TimerIntervalPositive ==
    /\ motor.step_interval_us > 0
    /\ timer_alarm > 0
    /\ motor.step_interval_us <= 1000000 \div MIN_STEP_RATE

\* a step of the timer ISR (the main context stands still, motor changes)
IsrStep == pc' = pc /\ motor' # motor

\* C24: every change of motor.current_steps made by the timer ISR is by
\* exactly 1 in the direction of the move (motor.direction, as shown on
\* M3_DIR_PIN) and is the falling edge of a pulse: the step pin was high, from
\* the rising edge of the preceding tick, and goes low; the ISR changes
\* neither current_steps nor the step pin while in_motion is false.
StepCountedPerPulse ==
    [][ IsrStep =>
          /\ motor'.current_steps # motor.current_steps =>
               /\ motor'.current_steps - motor.current_steps =
                    (IF motor.direction THEN 1 ELSE -1)
               /\ motor.direction = dir_pin
               /\ step_pin /\ ~step_pin'
          /\ ~motor.in_motion =>
               /\ motor'.current_steps = motor.current_steps
               /\ step_pin' = step_pin
      ]_vars

\* the main context stands between the read and the write of a
\* read-modify-write of the fields shared with the timer ISR: the test and
\* the clearing of motion_complete_flag in loop(), and the read of
\* current_steps and the write of target_steps in gotoPosition() and in
\* closedLoopCorrection()
InReadModifyWrite == pc \in {"clear", "g_target", "c_target"}

\* C25: every access of the main context to motor.current_steps,
\* motor.in_motion and motor.motion_complete_flag is made inside the timer
\* critical section, so that the timer ISR never runs between the read and
\* the write of a read-modify-write of these fields.
IsrOutsideReadModifyWrite == [][ IsrStep => ~InReadModifyWrite ]_vars

\* the step of loop() in which m2_check_home_stop runs
HomeStopStep == pcA = "check" /\ pcA' = "status"

\* C26: immediately after m2_check_home_stop returns it is never the case
\* that m2.in_motion is true, m2.direction_fwd is false and the home sensor
\* is asserted: reverse motion into the sensor is stopped within the
\* iteration (pulse output disabled, freq_hz = 0), while forward motion is
\* never stopped by the sensor.
ReverseStoppedAtHome ==
    [][ HomeStopStep =>
          /\ ~(m2'.in_motion /\ ~m2'.direction_fwd /\ home_low')
          /\ (m2.in_motion /\ ~m2.direction_fwd /\ home_low) =>
               (~m2'.in_motion /\ m2'.freq_hz = 0 /\ ~pwm2'.enabled)
          /\ m2.direction_fwd => (m2' = m2 /\ pwm2' = pwm2)
      ]_vars

\* reverse feed has just been stopped by the home sensor
StoppedByHomeSensor ==
    /\ pcA = "status"
    /\ outA = <<Response("M2_STOPPED", <<>>)>>
    /\ home_low
    /\ ~m2.in_motion
    /\ ~m2.direction_fwd
    /\ ~pwm2.enabled

=============================================================================
